---- MODULE Spec2Model ----
(***************************************************************************)
(* TraceCam: the camera-overlay component of src/src/App.tsx (the second   *)
(* App of that file, lines 317-985; src/unnamed/part_003 is the same       *)
(* camera effect without the overlay).                                     *)
(*                                                                         *)
(* React state and refs are the variables.  A handler reads the state of   *)
(* the render it was created in (the unprimed variables) and its updater   *)
(* functions (prev => ...) are applied in order to the latest state.  One  *)
(* action is one event handler run to completion, together with the        *)
(* re-render and the effects that re-render triggers.                      *)
(*                                                                         *)
(* Numbers.  x and y are integers.  A scale is a JavaScript number that    *)
(* may be a finite non-negative rational n/d, NaN or Infinity, and after   *)
(* JSON.parse it may be null.                                              *)
(***************************************************************************)
EXTENDS Integers, Sequences, FiniteSets, TLC

----------------------------------------------------------------------------
(* JavaScript numbers *)

RECURSIVE GCD(_, _)
GCD(a, b) == IF b = 0 THEN a ELSE GCD(b, a % b)

NaN == [k |-> "NaN"]
Infinity == [k |-> "Infinity"]
Null == [k |-> "null"]

Num(n, d) ==
  LET g == GCD(n, d) IN [k |-> "num", n |-> n \div g, d |-> d \div g]

IsFinite(v) == v.k = "num"

\* ToNumber: null converts to 0 in arithmetic
ToNumber(v) == IF v = Null THEN Num(0, 1) ELSE v

\* a / b for two non-negative integers (App.tsx 416)
Div(a, b) ==
  IF b = 0
    THEN IF a = 0 THEN NaN ELSE Infinity
    ELSE Num(a, b)

\* a * b for non-negative JavaScript numbers (App.tsx 421)
Mul(a0, b0) ==
  LET a == ToNumber(a0)
      b == ToNumber(b0)
  IN  IF a = NaN \/ b = NaN THEN NaN
      ELSE IF a = Infinity
        THEN IF b # Infinity /\ b.n = 0 THEN NaN ELSE Infinity
      ELSE IF b = Infinity
        THEN IF a.n = 0 THEN NaN ELSE Infinity
      ELSE Num(a.n * b.n, a.d * b.d)

\* a <= b for finite numbers or Infinity
Leq(a, b) ==
  IF b = Infinity THEN TRUE
  ELSE IF a = Infinity THEN FALSE
  ELSE a.n * b.d <= b.n * a.d

\* Math.min and Math.max return NaN when an argument is NaN
MathMin(a, b) == IF a = NaN \/ b = NaN THEN NaN ELSE IF Leq(a, b) THEN a ELSE b
MathMax(a, b) == IF a = NaN \/ b = NaN THEN NaN ELSE IF Leq(a, b) THEN b ELSE a

ISqrt(n) == CHOOSE r \in 0..n : r * r = n

\* Math.max(0.5, Math.min(3, prev.scale * scale))   (App.tsx 421, 426)
ClampScale(prevScale, ratio) ==
  MathMax(Num(1, 2), MathMin(Num(3, 1), Mul(prevScale, ratio)))

\* getDistance (App.tsx 344-348); a point is <<clientX, clientY>>
getDistance(touch1, touch2) ==
  LET dx == touch1[1] - touch2[1]
      dy == touch1[2] - touch2[2]
  IN  ISqrt(dx * dx + dy * dy)

----------------------------------------------------------------------------
(* Bounds and input sets *)

\* contact points the environment uses; they lie on one line so that every
\* distance is an integer (0, 5 or 10), and x and y deltas differ
Points == { <<0, 0>>, <<3, 4>>, <<6, 8>> }

\* at most this many simultaneous touch points
MaxTouches == 2

\* the environment keeps a dragged layer within |x| <= MaxShift
MaxShift == 3

HideOffset == 56

\* the slider's min and max (App.tsx 873-874) and the values it is moved to
MinOpacity == 10
MaxOpacity == 100
Opacities == {MinOpacity, 55, MaxOpacity}

DefaultTransform == [x |-> 0, y |-> 0, scale |-> Num(1, 1)]

----------------------------------------------------------------------------
(* localStorage and the conversions to and from its strings *)

Absent == [k |-> "absent"]

\* a stored string that is not the JSON text of a Transform
Str(v) == [k |-> "str", v |-> v]
EmptyString == Str("")

\* JSON.stringify of a Transform: a number that is not finite is written as
\* null (App.tsx 386, 388, 464, 466, 635, 664, 668)
JSONstringify(t) ==
  [k |-> "json", x |-> t.x, y |-> t.y,
   scale |-> IF IsFinite(t.scale) THEN t.scale ELSE Null]

\* JSON.parse (App.tsx 483, 494): the object JSON.stringify wrote, the value
\* of another JSON text, or a SyntaxError for a text that is not JSON
SyntaxError == [k |-> "SyntaxError"]
JSONparse(s) ==
  IF s.k = "json" THEN [x |-> s.x, y |-> s.y, scale |-> s.scale]
  ELSE IF s.v = "null" THEN Null
  ELSE IF s.v = "5" THEN Num(5, 1)
  ELSE SyntaxError

\* parsedTransform && typeof parsedTransform === 'object' (App.tsx 484, 495)
IsObject(v) == "x" \in DOMAIN v

\* An opacity is kept in hundredths (0.55 is 55).  A decimal text is the
\* sequence of its characters.
DigitChars == <<"0", "1", "2", "3", "4", "5", "6", "7", "8", "9">>
DigitOf(c) == CHOOSE d \in 0..9 : DigitChars[d + 1] = c

\* mutant: the opacity is written with one decimal, as toFixed(1) would
NumberToStringOneDecimal(n) ==
  Str(<<DigitChars[(n \div 100) + 1], ".", DigitChars[((n % 100) \div 10) + 1]>>)

\* newOpacity.toString() (App.tsx 615): the shortest decimal text, "1",
\* "0.5" or "0.55"
NumberToString(n) ==
  LET int == DigitChars[(n \div 100) + 1]
      tenths == DigitChars[((n % 100) \div 10) + 1]
      hundredths == DigitChars[(n % 10) + 1]
  IN  Str(IF n % 100 = 0 THEN <<int>>
          ELSE IF n % 10 = 0 THEN <<int, ".", tenths>>
          ELSE <<int, ".", tenths, hundredths>>)

\* parseFloat (App.tsx 519, 613) of a decimal text with one integer digit
parseFloat(s) ==
  LET cs == s.v
      frac(i) == IF Len(cs) >= i THEN DigitOf(cs[i]) ELSE 0
  IN  DigitOf(cs[1]) * 100 + frac(3) * 10 + frac(4)

StrTrue == Str("true")

EmptyStorage ==
  [tracecam_image_transform |-> Absent,
   tracecam_camera_transform |-> Absent,
   tracecam_privacy_accepted |-> Absent,
   tracecam_overlay_opacity |-> Absent,
   tracecam_overlay_image |-> Absent]

----------------------------------------------------------------------------
(* State *)

VARIABLES
  imagePosition,        \* useState {x, y, scale}   (App.tsx 336)
  cameraTransform,      \* useState {x, y, scale}   (App.tsx 337)
  dragStartPos,         \* useRef <<x, y>>          (App.tsx 338)
  isDragging,           \* useRef                   (App.tsx 339)
  lastPinchDistance,    \* useRef                   (App.tsx 340)
  isPinching,           \* useRef                   (App.tsx 341)
  isPictureMoveActive,  \* useState                 (App.tsx 332)
  isCameraMoveActive,   \* useState                 (App.tsx 333)
  showMoveMenu,         \* useState                 (App.tsx 329)
  hideMode,             \* useState                 (App.tsx 330)
  showOpacitySlider,    \* useState                 (App.tsx 331)
  overlayImage,         \* useState, "" when absent (App.tsx 326)
  overlayOpacity,       \* useState, in hundredths  (App.tsx 327)
  showPrivacy,          \* useState                 (App.tsx 325)
  cameraSupported,      \* useState                 (App.tsx 324)
  error,                \* useState                 (App.tsx 323)
  stream,               \* useState                 (App.tsx 322)
  streamRef,            \* useRef                   (App.tsx 321)
  videoSrc,             \* videoRef.current.srcObject, NoStream when no video
  localStorage,         \* the browser's storage, by key
  uncaught,             \* key of the write whose exception escaped a handler
  quotaExceeded,        \* the browser refuses the next localStorage.setItem
  mounted,              \* the App component is mounted
  gumLog,               \* getUserMedia requests of this page, in issue order
  live,                 \* streams whose tracks are running
  apiPresent,           \* navigator.mediaDevices.getUserMedia exists
  touches,              \* the contact points now on the surface (e.touches)
  delivery,             \* which handlers the current contacts' events reach
  pending,              \* touch event queued behind a pointer event
  uploadedImage,        \* first iteration: useState, "" when null (App.tsx 10)
  opacity,              \* first iteration: useState, in hundredths (App.tsx 11)
  cameraMode,           \* first iteration: useState {isActive, stream} (App.tsx 12)
  showPrivacyModal,     \* first iteration: useState (App.tsx 13)
  showClearConfirm,     \* first iteration: useState (App.tsx 14)
  srcObject,            \* first iteration: videoRef.current.srcObject
  startLog,             \* first iteration: getUserMedia requests, in issue order
  tracksRunning,        \* first iteration: streams whose tracks are running
  storageV1             \* the storage entries under the first iteration's keys

transformVars == <<imagePosition, cameraTransform>>
gestureRefs == <<dragStartPos, isDragging, lastPinchDistance, isPinching>>
targetVars == <<isPictureMoveActive, isCameraMoveActive>>
menuVars == <<showMoveMenu, hideMode, showOpacitySlider>>
overlayVars == <<overlayImage, overlayOpacity>>
cameraVars ==
  <<showPrivacy, cameraSupported, error, stream, streamRef, videoSrc, gumLog, live>>
contactVars == <<touches, delivery, pending>>
storageVars == <<localStorage, uncaught>>
firstVars ==
  <<uploadedImage, opacity, cameraMode, showPrivacyModal, showClearConfirm,
    srcObject, startLog, tracksRunning, storageV1>>
envVars == <<apiPresent, quotaExceeded, mounted, firstVars>>

vars ==
  <<transformVars, gestureRefs, targetVars, menuVars, overlayVars, cameraVars,
    storageVars, envVars, contactVars>>

NoStream == "none"
NoError == ""
ErrNotSupported == "Camera API not supported in this browser"
ErrAccessFailed == "Camera access failed"
ErrPlayback == "Video playback failed"
NoException == "none"

Pending(constraints) == [constraints |-> constraints, result |-> "pending"]

\* localStorage.setItem(key, value): the browser stores the string, or it
\* throws QuotaExceededError and stores nothing.  No handler of the component
\* has a try/catch around a write, so the exception leaves the handler.
setItem(key, value) ==
  IF quotaExceeded
    THEN uncaught' = key /\ UNCHANGED localStorage
    ELSE localStorage' = [localStorage EXCEPT ![key] = value] /\ UNCHANGED uncaught

----------------------------------------------------------------------------
(* The first iteration of the component (App.tsx 1-315): its storage and   *)
(* its mount effect                                                        *)

\* getUserMedia requests one page of the first iteration may issue
MaxRequests == 4

\* null of cameraMode.stream and of srcObject; a stream is named by the
\* position of its request in startLog
NoCamera == 0

InactiveCamera == [isActive |-> FALSE, stream |-> NoCamera]

EmptyStorageV1 ==
  [key \in {"tracecam-image", "tracecam-opacity", "tracecam-privacy-seen"} |->
     Absent]

\* the mount effect of the first iteration (App.tsx 20-34); an absent entry
\* and the empty string are falsy
MountedV1(st) ==
  LET savedImage == st["tracecam-image"]
      savedOpacity == st["tracecam-opacity"]
      hasSeenPrivacy == st["tracecam-privacy-seen"]
  IN  [uploadedImage |-> IF savedImage # Absent THEN savedImage.v ELSE "",
       opacity |-> IF savedOpacity # Absent THEN parseFloat(savedOpacity) ELSE 50,
       showPrivacyModal |-> hasSeenPrivacy = Absent]

----------------------------------------------------------------------------
(* Mount: the first render and its effects, in source order *)

\* mutant: the camera effect forgets the privacy notice
CameraEffectIgnoringPrivacy(supported, privacy) == supported

\* the guard of the camera effect (App.tsx 533) for the render it closes over
CameraEffectRuns(supported, privacy) == ~(~supported \/ privacy)

\* useState(true) of showPrivacy (App.tsx 325)
InitialShowPrivacy == TRUE

\* mutant: whatever JSON.parse yields or throws becomes the Transform
RestoreTransformUnchecked(saved) ==
  IF saved = Absent THEN DefaultTransform ELSE JSONparse(saved)

\* effect of App.tsx 477-502: a stored Transform replaces the default; a
\* missing or empty string, a SyntaxError (caught) and a parsed value that is
\* not an object leave the default
RestoreTransform(saved) ==
  IF saved = Absent \/ saved = EmptyString
    THEN DefaultTransform
    ELSE LET parsedTransform == JSONparse(saved)
         IN  IF parsedTransform # SyntaxError /\ IsObject(parsedTransform)
               THEN parsedTransform
               ELSE DefaultTransform

\* mutant: the stored consent flag is not read
RestoreShowPrivacyIgnoringFlag(st) == InitialShowPrivacy

\* effect of App.tsx 505-509
RestoreShowPrivacy(st) ==
  IF st.tracecam_privacy_accepted = StrTrue THEN FALSE ELSE InitialShowPrivacy

\* effect of App.tsx 512-520
RestoreOpacity(st) ==
  IF st.tracecam_overlay_opacity # Absent
    THEN parseFloat(st.tracecam_overlay_opacity)
    ELSE 50

RestoreImage(st) ==
  IF st.tracecam_overlay_image # Absent THEN st.tracecam_overlay_image.v ELSE ""

\* The state once the mount effects and the re-render they cause have run.
\* The camera effect runs first with the state of the initial render
\* (cameraSupported = TRUE, showPrivacy = InitialShowPrivacy) and again after
\* the re-render when one of its dependencies changed (App.tsx 532-589).
Mounted(st, api) ==
  LET privacy == RestoreShowPrivacy(st)
      supported == api
      firstRun == CameraEffectRuns(TRUE, InitialShowPrivacy)
      secondRun == <<supported, privacy>> # <<TRUE, InitialShowPrivacy>>
                     /\ CameraEffectRuns(supported, privacy)
      started == firstRun \/ secondRun
  IN  [imagePosition |-> RestoreTransform(st.tracecam_image_transform),
       cameraTransform |-> RestoreTransform(st.tracecam_camera_transform),
       overlayImage |-> RestoreImage(st),
       overlayOpacity |-> RestoreOpacity(st),
       showPrivacy |-> privacy,
       cameraSupported |-> supported,
       error |-> IF started THEN NoError
                 ELSE IF supported THEN NoError ELSE ErrNotSupported,
       gumLog |-> IF started THEN <<Pending("exact")>> ELSE <<>>]

Init ==
  /\ apiPresent \in BOOLEAN
  /\ localStorage = EmptyStorage
  /\ uncaught = NoException
  /\ quotaExceeded = FALSE
  /\ mounted = TRUE
  /\ LET m == Mounted(EmptyStorage, apiPresent)
     IN  /\ imagePosition = m.imagePosition
         /\ cameraTransform = m.cameraTransform
         /\ overlayImage = m.overlayImage
         /\ overlayOpacity = m.overlayOpacity
         /\ showPrivacy = m.showPrivacy
         /\ cameraSupported = m.cameraSupported
         /\ error = m.error
         /\ gumLog = m.gumLog
  /\ dragStartPos = <<0, 0>>
  /\ isDragging = FALSE
  /\ lastPinchDistance = 0
  /\ isPinching = FALSE
  /\ isPictureMoveActive = FALSE
  /\ isCameraMoveActive = FALSE
  /\ showMoveMenu = FALSE
  /\ hideMode = FALSE
  /\ showOpacitySlider = FALSE
  /\ stream = NoStream
  /\ streamRef = NoStream
  /\ videoSrc = NoStream
  /\ live = {}
  /\ touches = <<>>
  /\ delivery = "none"
  /\ pending = "none"
  /\ storageV1 = EmptyStorageV1
  /\ LET m == MountedV1(EmptyStorageV1)
     IN  /\ uploadedImage = m.uploadedImage
         /\ opacity = m.opacity
         /\ showPrivacyModal = m.showPrivacyModal
  /\ showClearConfirm = FALSE
  /\ cameraMode = InactiveCamera
  /\ srcObject = NoCamera
  /\ startLog = <<>>
  /\ tracksRunning = {}

\* window.location.reload(), or the user refreshing the page: a new page with
\* fresh state and the same storage; the old page's capture ends with it
Reload ==
  /\ LET m == Mounted(localStorage, apiPresent)
     IN  /\ imagePosition' = m.imagePosition
         /\ cameraTransform' = m.cameraTransform
         /\ overlayImage' = m.overlayImage
         /\ overlayOpacity' = m.overlayOpacity
         /\ showPrivacy' = m.showPrivacy
         /\ cameraSupported' = m.cameraSupported
         /\ error' = m.error
         /\ gumLog' = m.gumLog
  /\ dragStartPos' = <<0, 0>>
  /\ isDragging' = FALSE
  /\ lastPinchDistance' = 0
  /\ isPinching' = FALSE
  /\ isPictureMoveActive' = FALSE
  /\ isCameraMoveActive' = FALSE
  /\ showMoveMenu' = FALSE
  /\ hideMode' = FALSE
  /\ showOpacitySlider' = FALSE
  /\ stream' = NoStream
  /\ streamRef' = NoStream
  /\ videoSrc' = NoStream
  /\ live' = {}
  /\ touches' = <<>>
  /\ delivery' = "none"
  /\ pending' = "none"
  /\ uncaught' = NoException
  /\ mounted' = TRUE
  /\ UNCHANGED <<localStorage, apiPresent, quotaExceeded, firstVars>>

----------------------------------------------------------------------------
(* What is rendered (App.tsx 727-770, 805-966) *)

\* which of the component's returns renders: the error view is tested first
\* (App.tsx 727), then the not-supported view (App.tsx 756), then the main
\* view (App.tsx 772)
View ==
  IF error # NoError THEN "Camera Error"
  ELSE IF ~cameraSupported THEN "Camera Not Supported"
  ELSE "main"

\* the Try Again button belongs to the error view (App.tsx 744-749)
RetryOffered == View = "Camera Error"

\* neither the error view nor the not-supported view replaces the main view
MainViewShown == mounted /\ error = NoError /\ cameraSupported

\* the video element and, with an image, the overlay element
GestureSurface == MainViewShown /\ stream # NoStream
OverlayMounted == GestureSurface /\ overlayImage # ""

\* top and bottom bars
ControlsShown == GestureSurface /\ ~hideMode

\* no event is dispatched between a pointer event and the touch event of the
\* same contact change
Idle == pending = "none"

\* when the overlay element or the whole main view is unmounted, the rest of
\* a gesture that started on it reaches no handler
DropContacts == touches' = <<>> /\ delivery' = "none" /\ pending' = "none"

----------------------------------------------------------------------------
(* Camera acquisition (App.tsx 531-589, part_003 27-83) *)

LastRequest == gumLog[Len(gumLog)]
RequestPending == gumLog # <<>> /\ LastRequest.result = "pending"
Settle(result) == [gumLog EXCEPT ![Len(gumLog)].result = result]

\* mutant: the soft-preference request is skipped
NextConstraintsSkipping(c) == IF c = "exact" THEN "any" ELSE ""

\* the constraints tried after a rejected request, "" after the last one
NextConstraints(c) ==
  IF c = "exact" THEN "preferred" ELSE IF c = "preferred" THEN "any" ELSE ""

\* handlePrivacyAccept (App.tsx 592-595), the re-render and the camera effect
\* that re-render runs (App.tsx 532-580): startCamera clears the error and
\* issues the strict rear-camera request
handlePrivacyAccept ==
  /\ Idle /\ MainViewShown /\ showPrivacy
  /\ showPrivacy' = FALSE
  /\ setItem("tracecam_privacy_accepted", StrTrue)
  /\ IF CameraEffectRuns(cameraSupported, FALSE)
       THEN error' = NoError /\ gumLog' = Append(gumLog, Pending("exact"))
       ELSE UNCHANGED <<error, gumLog>>
  /\ UNCHANGED <<cameraSupported, stream, streamRef, videoSrc, live>>
  /\ UNCHANGED <<transformVars, gestureRefs, targetVars, menuVars, overlayVars,
                 envVars, contactVars>>

\* the pending getUserMedia promise resolves with a stream (App.tsx 563-571);
\* setStream re-renders, the video element mounts and the effect of
\* App.tsx 719-724 binds the stream to it.  startCamera has no cancelled
\* flag: after an unmount the ref is still assigned, while setStream does
\* nothing and videoRef.current is null.
GumResolve ==
  /\ RequestPending
  /\ LET mediaStream == LastRequest.constraints
     IN  /\ gumLog' = Settle("resolved")
         /\ live' = live \cup {mediaStream}
         /\ streamRef' = mediaStream
         /\ stream' = IF mounted THEN mediaStream ELSE stream
         /\ videoSrc' = IF MainViewShown THEN mediaStream ELSE NoStream
  /\ UNCHANGED <<showPrivacy, cameraSupported, error>>
  /\ UNCHANGED <<transformVars, gestureRefs, targetVars, menuVars, overlayVars,
                 storageVars, envVars, contactVars>>

\* mutant: after the strict request rejects, both fallbacks are requested
\* at once
GumRejectRacing ==
  /\ RequestPending
  /\ LET c == LastRequest.constraints
     IN  IF c = "exact"
           THEN /\ gumLog' = Settle("rejected") \o <<Pending("preferred"), Pending("any")>>
                /\ UNCHANGED error
           ELSE /\ gumLog' = Settle("rejected")
                /\ error' = IF mounted /\ c = "any" THEN ErrAccessFailed ELSE error
  /\ UNCHANGED <<showPrivacy, cameraSupported, stream, streamRef, videoSrc, live>>
  /\ UNCHANGED <<transformVars, gestureRefs, targetVars, menuVars, overlayVars,
                 storageVars, envVars, contactVars>>

\* mutant: the error is set as soon as the soft-preference request rejects
GumRejectEager ==
  /\ RequestPending
  /\ LET next == NextConstraints(LastRequest.constraints)
     IN  IF next # ""
           THEN /\ gumLog' = Append(Settle("rejected"), Pending(next))
                /\ error' = IF next = "any" THEN ErrAccessFailed ELSE error
           ELSE /\ gumLog' = Settle("rejected")
                /\ error' = IF mounted THEN ErrAccessFailed ELSE error
  /\ UNCHANGED <<showPrivacy, cameraSupported, stream, streamRef, videoSrc, live>>
  /\ UNCHANGED <<transformVars, gestureRefs, targetVars, menuVars, overlayVars,
                 storageVars, envVars, contactVars>>

\* the pending getUserMedia promise rejects: the next fallback is requested
\* (App.tsx 545-560), or after the last one the error is set (App.tsx 573-577)
GumReject ==
  /\ RequestPending
  /\ LET next == NextConstraints(LastRequest.constraints)
     IN  IF next # ""
           THEN /\ gumLog' = Append(Settle("rejected"), Pending(next))
                /\ UNCHANGED error
           ELSE /\ gumLog' = Settle("rejected")
                /\ error' = IF mounted THEN ErrAccessFailed ELSE error
  /\ UNCHANGED <<showPrivacy, cameraSupported, stream, streamRef, videoSrc, live>>
  /\ UNCHANGED <<transformVars, gestureRefs, targetVars, menuVars, overlayVars,
                 storageVars, envVars, contactVars>>

\* mutant: the cleanup forgets the stream without stopping its tracks
cleanupWithoutStop(ref, running) == [streamRef |-> NoStream, live |-> running]

\* the cleanup the camera effect returns (App.tsx 583-588), applied to the
\* ref and to the set of streams whose tracks are running
cleanup(ref, running) ==
  IF ref # NoStream
    THEN [streamRef |-> NoStream, live |-> running \ {ref}]
    ELSE [streamRef |-> ref, live |-> running]

\* The component is unmounted and the page stays.  React runs the cleanup of
\* the camera effect if the effect's last run returned one, which it did when
\* it got past its guard and called startCamera (App.tsx 533, 580-588).  The
\* video and overlay elements are gone; a getUserMedia promise that is still
\* pending settles later.
Unmount ==
  /\ Idle /\ mounted
  /\ mounted' = FALSE
  /\ LET c == IF gumLog # <<>>
                THEN cleanup(streamRef, live)
                ELSE [streamRef |-> streamRef, live |-> live]
     IN  streamRef' = c.streamRef /\ live' = c.live
  /\ videoSrc' = NoStream
  /\ DropContacts
  /\ UNCHANGED <<showPrivacy, cameraSupported, error, stream, gumLog>>
  /\ UNCHANGED <<apiPresent, quotaExceeded, firstVars>>
  /\ UNCHANGED <<transformVars, gestureRefs, targetVars, menuVars, overlayVars,
                 storageVars>>

\* handleCanPlay (App.tsx 707-716) when play() rejects: the error view
\* replaces the main view, which unmounts the video element
PlaybackFails ==
  /\ Idle /\ GestureSurface /\ videoSrc # NoStream
  /\ error' = ErrPlayback
  /\ videoSrc' = NoStream
  /\ DropContacts
  /\ UNCHANGED <<showPrivacy, cameraSupported, stream, streamRef, gumLog, live>>
  /\ UNCHANGED <<transformVars, gestureRefs, targetVars, menuVars, overlayVars,
                 storageVars, envVars>>

\* the user clears the site's data in the browser
ClearSiteData ==
  /\ Idle
  /\ localStorage # EmptyStorage
  /\ localStorage' = EmptyStorage
  /\ UNCHANGED uncaught
  /\ UNCHANGED <<transformVars, gestureRefs, targetVars, menuVars, overlayVars,
                 cameraVars, envVars, contactVars>>

\* strings under a Transform key that no handler of the component wrote: the
\* empty string, a text that is not JSON, and JSON texts that are not objects
ForeignStrings == {EmptyString, Str("{x:"), Str("null"), Str("5")}

\* another script of the origin, an earlier build or the user puts such a
\* string under a Transform key
ForeignWrite ==
  /\ Idle
  /\ \E key \in {"tracecam_image_transform", "tracecam_camera_transform"},
        v \in ForeignStrings :
       localStorage' = [localStorage EXCEPT ![key] = v]
  /\ UNCHANGED uncaught
  /\ UNCHANGED <<transformVars, gestureRefs, targetVars, menuVars, overlayVars,
                 cameraVars, envVars, contactVars>>

\* the origin's storage quota runs out (the comment of App.tsx 606 expects
\* it for large payloads), and is freed again
StorageFills ==
  /\ Idle /\ mounted /\ ~quotaExceeded
  /\ quotaExceeded' = TRUE
  /\ UNCHANGED <<apiPresent, mounted, firstVars>>
  /\ UNCHANGED <<transformVars, gestureRefs, targetVars, menuVars, overlayVars,
                 cameraVars, storageVars, contactVars>>

StorageFrees ==
  /\ Idle /\ mounted /\ quotaExceeded
  /\ quotaExceeded' = FALSE
  /\ UNCHANGED <<apiPresent, mounted, firstVars>>
  /\ UNCHANGED <<transformVars, gestureRefs, targetVars, menuVars, overlayVars,
                 cameraVars, storageVars, contactVars>>

----------------------------------------------------------------------------
(* Controls *)

\* mutant: the reader's onload also stores the data URL (the write that
\* App.tsx 606 leaves commented out)
handleImageUploadPersisting(fileType) ==
  /\ Idle /\ ControlsShown
  /\ overlayImage' = IF fileType = "image" THEN "data:image" ELSE overlayImage
  /\ IF fileType = "image"
       THEN setItem("tracecam_overlay_image", Str("data:image"))
       ELSE UNCHANGED storageVars
  /\ UNCHANGED overlayOpacity
  /\ UNCHANGED <<transformVars, gestureRefs, targetVars, menuVars, cameraVars,
                 envVars, contactVars>>

\* handleImageUpload and the reader's onload (App.tsx 598-609); fileType is
\* the part of file.type before the slash
handleImageUpload(fileType) ==
  /\ Idle /\ ControlsShown
  /\ overlayImage' = IF fileType = "image" THEN "data:image" ELSE overlayImage
  /\ UNCHANGED <<overlayOpacity, storageVars>>
  /\ UNCHANGED <<transformVars, gestureRefs, targetVars, menuVars, cameraVars,
                 envVars, contactVars>>

\* handleOpacityChange (App.tsx 612-616)
handleOpacityChange(newOpacity) ==
  /\ Idle /\ ControlsShown /\ showOpacitySlider
  /\ overlayOpacity' = newOpacity
  /\ setItem("tracecam_overlay_opacity", NumberToString(newOpacity))
  /\ UNCHANGED overlayImage
  /\ UNCHANGED <<transformVars, gestureRefs, targetVars, menuVars, cameraVars,
                 envVars, contactVars>>

\* mutant: the camera Transform's stored entry is not removed
handleClearImageKeepingCameraKey ==
  /\ Idle /\ ControlsShown /\ overlayImage # ""
  /\ overlayImage' = ""
  /\ imagePosition' = [x |-> 0, y |-> 0, scale |-> Num(1, 1)]
  /\ cameraTransform' = [x |-> 0, y |-> 0, scale |-> Num(1, 1)]
  /\ localStorage' = [localStorage EXCEPT !.tracecam_image_transform = Absent]
  /\ UNCHANGED uncaught
  /\ IF delivery \in {"pointer", "both"}
       THEN DropContacts
       ELSE UNCHANGED contactVars
  /\ UNCHANGED overlayOpacity
  /\ UNCHANGED <<gestureRefs, targetVars, menuVars, cameraVars, envVars>>

\* handleClearImage (App.tsx 619-627); the overlay element unmounts
handleClearImage ==
  /\ Idle /\ ControlsShown /\ overlayImage # ""
  /\ overlayImage' = ""
  /\ imagePosition' = [x |-> 0, y |-> 0, scale |-> Num(1, 1)]
  /\ cameraTransform' = [x |-> 0, y |-> 0, scale |-> Num(1, 1)]
  /\ localStorage' = [localStorage EXCEPT !.tracecam_image_transform = Absent,
                                          !.tracecam_camera_transform = Absent]
  /\ UNCHANGED uncaught
  /\ IF delivery \in {"pointer", "both"}
       THEN DropContacts
       ELSE UNCHANGED contactVars
  /\ UNCHANGED overlayOpacity
  /\ UNCHANGED <<gestureRefs, targetVars, menuVars, cameraVars, envVars>>

\* handleMoveToggle (App.tsx 630-641)
handleMoveToggle ==
  /\ Idle /\ ControlsShown
  /\ showMoveMenu' = ~showMoveMenu
  /\ IF showMoveMenu /\ isPictureMoveActive
       THEN /\ isPictureMoveActive' = FALSE
            /\ setItem("tracecam_image_transform", JSONstringify(imagePosition))
       ELSE UNCHANGED <<isPictureMoveActive, storageVars>>
  /\ showOpacitySlider' = IF ~showMoveMenu THEN FALSE ELSE showOpacitySlider
  /\ UNCHANGED <<isCameraMoveActive, hideMode>>
  /\ UNCHANGED <<transformVars, gestureRefs, overlayVars, cameraVars,
                 envVars, contactVars>>

\* handlePictureMoveToggle (App.tsx 643-649)
handlePictureMoveToggle ==
  /\ Idle /\ ControlsShown /\ showMoveMenu
  /\ isPictureMoveActive' = ~isPictureMoveActive
  /\ isCameraMoveActive' = IF ~isPictureMoveActive THEN FALSE ELSE isCameraMoveActive
  /\ UNCHANGED <<transformVars, gestureRefs, menuVars, overlayVars, cameraVars,
                 storageVars, envVars, contactVars>>

\* mutant: enabling camera mode leaves picture mode as it is
handleCameraMoveToggleOnly ==
  /\ Idle /\ ControlsShown /\ showMoveMenu
  /\ isCameraMoveActive' = ~isCameraMoveActive
  /\ UNCHANGED isPictureMoveActive
  /\ UNCHANGED <<transformVars, gestureRefs, menuVars, overlayVars, cameraVars,
                 storageVars, envVars, contactVars>>

\* handleCameraMoveToggle (App.tsx 651-657)
handleCameraMoveToggle ==
  /\ Idle /\ ControlsShown /\ showMoveMenu
  /\ isCameraMoveActive' = ~isCameraMoveActive
  /\ isPictureMoveActive' = IF ~isCameraMoveActive THEN FALSE ELSE isPictureMoveActive
  /\ UNCHANGED <<transformVars, gestureRefs, menuVars, overlayVars, cameraVars,
                 storageVars, envVars, contactVars>>

\* the storage after handleHide's writes (App.tsx 662-669)
HideStorage ==
  LET s1 == IF isPictureMoveActive
              THEN [localStorage EXCEPT
                      !.tracecam_image_transform = JSONstringify(imagePosition)]
              ELSE localStorage
  IN  IF isCameraMoveActive
        THEN [s1 EXCEPT !.tracecam_camera_transform = JSONstringify(cameraTransform)]
        ELSE s1

\* mutant: Hide writes the camera Transform after compensating it
handleHideSavingCompensated ==
  /\ Idle /\ ControlsShown /\ ~quotaExceeded
  /\ isPictureMoveActive' = FALSE
  /\ isCameraMoveActive' = FALSE
  /\ cameraTransform' = [cameraTransform EXCEPT !.y = @ + HideOffset]
  /\ localStorage' =
       IF isCameraMoveActive
         THEN [HideStorage EXCEPT
                 !.tracecam_camera_transform = JSONstringify(cameraTransform')]
         ELSE HideStorage
  /\ hideMode' = TRUE
  /\ showMoveMenu' = FALSE
  /\ showOpacitySlider' = FALSE
  /\ UNCHANGED uncaught
  /\ UNCHANGED <<imagePosition, gestureRefs, overlayVars, cameraVars,
                 envVars, contactVars>>

\* mutant: Hide saves the camera Transform and leaves its target active
handleHideKeepingCameraTarget ==
  /\ Idle /\ ControlsShown /\ ~quotaExceeded
  /\ isPictureMoveActive' = FALSE
  /\ localStorage' = HideStorage
  /\ cameraTransform' = [cameraTransform EXCEPT !.y = @ + HideOffset]
  /\ hideMode' = TRUE
  /\ showMoveMenu' = FALSE
  /\ showOpacitySlider' = FALSE
  /\ UNCHANGED <<isCameraMoveActive, uncaught>>
  /\ UNCHANGED <<imagePosition, gestureRefs, overlayVars, cameraVars,
                 envVars, contactVars>>

\* handleHide (App.tsx 660-682).  Its writes come first: when the write of
\* line 664 or of line 668 throws, the state updates queued before it are
\* applied and the rest of the handler does not run.
handleHide ==
  /\ Idle /\ ControlsShown
  /\ IF quotaExceeded /\ isPictureMoveActive
       THEN /\ isPictureMoveActive' = FALSE
            /\ uncaught' = "tracecam_image_transform"
            /\ UNCHANGED <<isCameraMoveActive, localStorage, cameraTransform,
                           menuVars>>
     ELSE IF quotaExceeded /\ isCameraMoveActive
       THEN /\ isCameraMoveActive' = FALSE
            /\ uncaught' = "tracecam_camera_transform"
            /\ UNCHANGED <<isPictureMoveActive, localStorage, cameraTransform,
                           menuVars>>
     ELSE /\ isPictureMoveActive' = FALSE
          /\ isCameraMoveActive' = FALSE
          /\ localStorage' = HideStorage
          /\ cameraTransform' = [cameraTransform EXCEPT !.y = @ + HideOffset]
          /\ hideMode' = TRUE
          /\ showMoveMenu' = FALSE
          /\ showOpacitySlider' = FALSE
          /\ UNCHANGED uncaught
  /\ UNCHANGED <<imagePosition, gestureRefs, overlayVars, cameraVars,
                 envVars, contactVars>>

\* handleShow (App.tsx 685-695)
handleShow ==
  /\ Idle /\ GestureSurface /\ hideMode
  /\ cameraTransform' = [cameraTransform EXCEPT !.y = @ - HideOffset]
  /\ hideMode' = FALSE
  /\ UNCHANGED <<showMoveMenu, showOpacitySlider>>
  /\ UNCHANGED <<imagePosition, gestureRefs, targetVars, overlayVars, cameraVars,
                 storageVars, envVars, contactVars>>

\* handleOpacityToggle (App.tsx 698-704)
handleOpacityToggle ==
  /\ Idle /\ ControlsShown
  /\ showOpacitySlider' = ~showOpacitySlider
  /\ showMoveMenu' = IF ~showOpacitySlider THEN FALSE ELSE showMoveMenu
  /\ UNCHANGED hideMode
  /\ UNCHANGED <<transformVars, gestureRefs, targetVars, overlayVars, cameraVars,
                 storageVars, envVars, contactVars>>

----------------------------------------------------------------------------
(* Gesture handlers (App.tsx 350-474).  Each definition gives the handler's *)
(* effect on the Transforms, the gesture refs and the storage.              *)

NoTarget == ~isPictureMoveActive /\ ~isCameraMoveActive

Translate(prev, dx, dy) == [prev EXCEPT !.x = @ + dx, !.y = @ + dy]
Rescale(prev, ratio) == [prev EXCEPT !.scale = ClampScale(@, ratio)]

\* mutant: the recorded drag position is not advanced, so every move adds
\* the whole distance from the contact's start again
DragToFromStart(p) ==
  LET dx == p[1] - dragStartPos[1]
      dy == p[2] - dragStartPos[2]
  IN  /\ IF isPictureMoveActive
           THEN /\ imagePosition' = [imagePosition EXCEPT !.x = @ + dx, !.y = @ + dy]
                /\ UNCHANGED cameraTransform
           ELSE /\ cameraTransform' = [cameraTransform EXCEPT !.x = @ + dx, !.y = @ + dy]
                /\ UNCHANGED imagePosition
      /\ UNCHANGED dragStartPos

\* the drag branch shared by handlePointerMove (App.tsx 359-376) and
\* handleTouchMove (App.tsx 433-450)
DragTo(p) ==
  LET dx == p[1] - dragStartPos[1]
      dy == p[2] - dragStartPos[2]
  IN  /\ IF isPictureMoveActive
           THEN /\ imagePosition' = Translate(imagePosition, dx, dy)
                /\ UNCHANGED cameraTransform
           ELSE /\ cameraTransform' = Translate(cameraTransform, dx, dy)
                /\ UNCHANGED imagePosition
      /\ dragStartPos' = p

\* the pinch branch of handleTouchMove (App.tsx 415-430)
PinchTo(t1, t2) ==
  LET currentDistance == getDistance(t1, t2)
      scale == Div(currentDistance, lastPinchDistance)
  IN  /\ IF isPictureMoveActive
           THEN /\ imagePosition' = Rescale(imagePosition, scale)
                /\ UNCHANGED cameraTransform
           ELSE /\ cameraTransform' = Rescale(cameraTransform, scale)
                /\ UNCHANGED imagePosition
      /\ lastPinchDistance' = currentDistance

\* mutant: the end of an interaction writes both Transforms
SaveBoth ==
  /\ localStorage' =
       [localStorage EXCEPT
          !.tracecam_image_transform = JSONstringify(imagePosition),
          !.tracecam_camera_transform = JSONstringify(cameraTransform)]
  /\ UNCHANGED uncaught

\* the write at the end of an interaction (App.tsx 385-389, 463-467)
SaveActive ==
  IF isPictureMoveActive
    THEN setItem("tracecam_image_transform", JSONstringify(imagePosition))
    ELSE setItem("tracecam_camera_transform", JSONstringify(cameraTransform))

\* handlePointerDown (App.tsx 350-355)
handlePointerDown(p) ==
  /\ IF NoTarget
       THEN UNCHANGED gestureRefs
       ELSE /\ isDragging' = TRUE
            /\ dragStartPos' = p
            /\ UNCHANGED <<lastPinchDistance, isPinching>>
  /\ UNCHANGED <<transformVars, storageVars>>

\* handlePointerMove (App.tsx 357-377)
handlePointerMove(p) ==
  /\ IF NoTarget \/ ~isDragging
       THEN UNCHANGED <<transformVars, dragStartPos>>
       ELSE DragTo(p)
  /\ UNCHANGED <<isDragging, lastPinchDistance, isPinching, storageVars>>

\* handlePointerUp (App.tsx 379-390), also bound to pointercancel
handlePointerUp ==
  /\ IF NoTarget
       THEN UNCHANGED <<isDragging, storageVars>>
       ELSE isDragging' = FALSE /\ SaveActive
  /\ UNCHANGED <<transformVars, dragStartPos, lastPinchDistance, isPinching>>

\* handleTouchStart (App.tsx 393-407); ts is e.touches
handleTouchStart(ts) ==
  /\ IF NoTarget THEN UNCHANGED gestureRefs
     ELSE IF Len(ts) = 2
       THEN /\ isPinching' = TRUE
            /\ isDragging' = FALSE
            /\ lastPinchDistance' = getDistance(ts[1], ts[2])
            /\ UNCHANGED dragStartPos
     ELSE IF Len(ts) = 1
       THEN /\ isPinching' = FALSE
            /\ isDragging' = TRUE
            /\ dragStartPos' = ts[1]
            /\ UNCHANGED lastPinchDistance
     ELSE UNCHANGED gestureRefs
  /\ UNCHANGED <<transformVars, storageVars>>

\* mutant: handleTouchMove without the check of line 410
handleTouchMoveUnguarded(ts) ==
  /\ IF Len(ts) = 2 /\ isPinching
       THEN PinchTo(ts[1], ts[2]) /\ UNCHANGED dragStartPos
     ELSE IF Len(ts) = 1 /\ isDragging
       THEN DragTo(ts[1]) /\ UNCHANGED lastPinchDistance
     ELSE UNCHANGED <<transformVars, dragStartPos, lastPinchDistance>>
  /\ UNCHANGED <<isDragging, isPinching, storageVars>>

\* handleTouchMove (App.tsx 409-452)
handleTouchMove(ts) ==
  /\ IF NoTarget THEN UNCHANGED <<transformVars, dragStartPos, lastPinchDistance>>
     ELSE IF Len(ts) = 2 /\ isPinching
       THEN PinchTo(ts[1], ts[2]) /\ UNCHANGED dragStartPos
     ELSE IF Len(ts) = 1 /\ isDragging
       THEN DragTo(ts[1]) /\ UNCHANGED lastPinchDistance
     ELSE UNCHANGED <<transformVars, dragStartPos, lastPinchDistance>>
  /\ UNCHANGED <<isDragging, isPinching, storageVars>>

\* mutant: the pinch-to-drag transition keeps the old drag origin
handleTouchEndStaleOrigin(ts) ==
  /\ IF NoTarget THEN UNCHANGED <<gestureRefs, storageVars>>
     ELSE IF Len(ts) = 0
       THEN /\ isDragging' = FALSE
            /\ isPinching' = FALSE
            /\ SaveActive
            /\ UNCHANGED <<dragStartPos, lastPinchDistance>>
     ELSE IF Len(ts) = 1 /\ isPinching
       THEN /\ isPinching' = FALSE
            /\ isDragging' = TRUE
            /\ UNCHANGED <<dragStartPos, lastPinchDistance, storageVars>>
     ELSE UNCHANGED <<gestureRefs, storageVars>>
  /\ UNCHANGED transformVars

\* handleTouchEnd (App.tsx 454-474), also bound to touchcancel
handleTouchEnd(ts) ==
  /\ IF NoTarget THEN UNCHANGED <<gestureRefs, storageVars>>
     ELSE IF Len(ts) = 0
       THEN /\ isDragging' = FALSE
            /\ isPinching' = FALSE
            /\ SaveActive
            /\ UNCHANGED <<dragStartPos, lastPinchDistance>>
     ELSE IF Len(ts) = 1 /\ isPinching
       THEN /\ isPinching' = FALSE
            /\ isDragging' = TRUE
            /\ dragStartPos' = ts[1]
            /\ UNCHANGED <<lastPinchDistance, storageVars>>
     ELSE UNCHANGED <<gestureRefs, storageVars>>
  /\ UNCHANGED transformVars

----------------------------------------------------------------------------
(* Event delivery.  A contact is a mouse button press on the overlay (only  *)
(* pointer events, delivery "pointer"), a finger on the video element (only *)
(* touch events, "touch") or a finger on the overlay element, which has     *)
(* touch-action none and both families of handlers (a pointer event, then   *)
(* the touch event for the same change, "both").  App.tsx 930-963.          *)

RemoveAt(seq, i) == SubSeq(seq, 1, i - 1) \o SubSeq(seq, i + 1, Len(seq))

\* A scenario fixes what the environment does with contacts: the points it
\* puts them on, how many at once, which kinds of contact, and the window
\* |x| <= shift within which it drags a layer.
TouchLists(sc, n) == [1..n -> sc.points]

InWindow(sc, t) ==
  /\ t.x \in -sc.shift..sc.shift
  /\ t.y \in -(2 * sc.shift)..(2 * sc.shift + HideOffset)

Untouched ==
  UNCHANGED <<targetVars, menuVars, overlayVars, cameraVars, envVars>>

PointerDown(sc) ==
  /\ Idle /\ OverlayMounted
  /\ \E p \in sc.points, d \in sc.kinds \cap {"pointer", "both"} :
       /\ \/ touches = <<>>
          \/ d = "both" /\ delivery = "both" /\ Len(touches) < sc.maxTouches
       /\ touches' = Append(touches, p)
       /\ delivery' = d
       /\ pending' = IF d = "both" THEN "touchstart" ELSE "none"
       /\ handlePointerDown(p)
  /\ Untouched

PointerMove(sc) ==
  /\ Idle /\ OverlayMounted
  /\ delivery \in {"pointer", "both"}
  /\ \E i \in 1..Len(touches), p \in sc.points :
       /\ touches' = [touches EXCEPT ![i] = p]
       /\ handlePointerMove(p)
  /\ pending' = IF delivery = "both" THEN "touchmove" ELSE "none"
  /\ UNCHANGED delivery
  /\ InWindow(sc, imagePosition') /\ InWindow(sc, cameraTransform')
  /\ Untouched

\* the mouse moves over the overlay with no button pressed
PointerHover(sc) ==
  /\ Idle /\ OverlayMounted
  /\ touches = <<>>
  /\ "pointer" \in sc.kinds
  /\ \E p \in sc.points : handlePointerMove(p)
  /\ UNCHANGED contactVars
  /\ InWindow(sc, imagePosition') /\ InWindow(sc, cameraTransform')
  /\ Untouched

PointerUp(sc) ==
  /\ Idle /\ OverlayMounted
  /\ delivery \in {"pointer", "both"}
  /\ \E i \in 1..Len(touches) : touches' = RemoveAt(touches, i)
  /\ handlePointerUp
  /\ pending' = IF delivery = "both" THEN "touchend" ELSE "none"
  /\ delivery' = IF delivery = "pointer" THEN "none" ELSE delivery
  /\ Untouched

\* the touch event queued behind a pointer event of the same contact change
QueuedTouch ==
  /\ pending # "none"
  /\ IF pending = "touchstart" THEN handleTouchStart(touches)
     ELSE IF pending = "touchmove" THEN handleTouchMove(touches)
     ELSE handleTouchEnd(touches)
  /\ pending' = "none"
  /\ delivery' = IF touches = <<>> THEN "none" ELSE delivery
  /\ UNCHANGED touches
  /\ Untouched

TouchStart(sc) ==
  /\ Idle /\ GestureSurface
  /\ "touch" \in sc.kinds
  /\ touches = <<>> \/ delivery = "touch"
  /\ Len(touches) < sc.maxTouches
  /\ \E p \in sc.points :
       /\ touches' = Append(touches, p)
       /\ handleTouchStart(Append(touches, p))
  /\ delivery' = "touch"
  /\ UNCHANGED pending
  /\ Untouched

TouchMove(sc) ==
  /\ Idle /\ GestureSurface
  /\ delivery = "touch"
  /\ \E ts \in TouchLists(sc, Len(touches)) :
       /\ touches' = ts
       /\ handleTouchMove(ts)
  /\ UNCHANGED <<delivery, pending>>
  /\ InWindow(sc, imagePosition') /\ InWindow(sc, cameraTransform')
  /\ Untouched

TouchEnd(sc) ==
  /\ Idle /\ GestureSurface
  /\ delivery = "touch"
  /\ \E i \in 1..Len(touches) :
       /\ touches' = RemoveAt(touches, i)
       /\ handleTouchEnd(RemoveAt(touches, i))
  /\ delivery' = IF Len(touches) = 1 THEN "none" ELSE delivery
  /\ UNCHANGED pending
  /\ Untouched

\* contacts on the overlay element
PointerGestures(sc) ==
  \/ PointerDown(sc)
  \/ PointerMove(sc)
  \/ PointerUp(sc)
  \/ QueuedTouch

\* fingers on the video element
TouchGestures(sc) ==
  \/ TouchStart(sc)
  \/ TouchMove(sc)
  \/ TouchEnd(sc)

Gestures(sc) == PointerGestures(sc) \/ PointerHover(sc) \/ TouchGestures(sc)

----------------------------------------------------------------------------
(* The first iteration of the component (App.tsx 1-315): rendering,        *)
(* handlers and the asynchronous steps of startCamera                      *)

\* the state of the later iteration, which the first iteration does not have
laterVars ==
  <<transformVars, gestureRefs, targetVars, menuVars, overlayVars, cameraVars,
    storageVars, contactVars, apiPresent, quotaExceeded, mounted>>

\* the camera view is returned instead of the main view (App.tsx 151)
CameraViewShown == cameraMode.isActive

\* a modal covers the whole page (App.tsx 103, 124, 213-214, 308-309)
ModalOpen == showPrivacyModal \/ showClearConfirm

\* videoRef.current is the video element, which only the camera view renders
\* (App.tsx 153-159); it is null while the main view is shown
videoRefCurrent == cameraMode.isActive

\* the reader's onload of handleImageUpload (App.tsx 36-47)
handleImageUploadV1(fileType) ==
  /\ ~CameraViewShown /\ ~ModalOpen
  /\ IF fileType \in {"image/jpeg", "image/png"}
       THEN /\ uploadedImage' = "data:image"
            /\ storageV1' = [storageV1 EXCEPT !["tracecam-image"] = Str("data:image")]
       ELSE UNCHANGED <<uploadedImage, storageV1>>
  /\ UNCHANGED <<opacity, cameraMode, showPrivacyModal, showClearConfirm,
                 srcObject, startLog, tracksRunning>>
  /\ UNCHANGED laterVars

\* handleOpacityChange of the slider of either view (App.tsx 49-53)
handleOpacityChangeV1(newOpacity) ==
  /\ ~ModalOpen
  /\ opacity' = newOpacity
  /\ storageV1' = [storageV1 EXCEPT !["tracecam-opacity"] = NumberToString(newOpacity)]
  /\ UNCHANGED <<uploadedImage, cameraMode, showPrivacyModal, showClearConfirm,
                 srcObject, startLog, tracksRunning>>
  /\ UNCHANGED laterVars

\* requests already issued, and the fallback requests they may still cause
Reserved ==
  Len(startLog)
    + Cardinality({i \in 1..Len(startLog) :
                     startLog[i].constraints = "exact" /\ startLog[i].result = "pending"})

\* startCamera up to its first await (App.tsx 55-59).  Without the API both
\* getUserMedia expressions throw and the alert of App.tsx 79 is shown.
startCamera ==
  /\ IF apiPresent
       THEN /\ Reserved + 2 <= MaxRequests
            /\ startLog' = Append(startLog, Pending("exact"))
       ELSE UNCHANGED startLog
  /\ UNCHANGED <<uploadedImage, opacity, cameraMode, showPrivacyModal,
                 showClearConfirm, srcObject, tracksRunning, storageV1>>

\* the catch blocks of startCamera (App.tsx 68-81): after the strict request
\* the default camera is requested, after the default one the alert is shown
Fallback(log, i) ==
  IF log[i].constraints = "exact" THEN Append(log, Pending("any")) ELSE log

\* a getUserMedia promise of startCamera resolves (App.tsx 61-66, 72-77):
\* with a video element the stream is bound and played, and camera mode is
\* set after play() resolved; without one the function returns, and the
\* stream is neither kept nor stopped
GetUserMediaResolves(i) ==
  /\ startLog[i].result = "pending"
  /\ tracksRunning' = tracksRunning \cup {i}
  /\ LET settled == [startLog EXCEPT ![i].result = "resolved"]
     IN  IF videoRefCurrent
           THEN /\ srcObject' = i
                /\ \E played \in BOOLEAN :
                     IF played
                       THEN /\ cameraMode' = [isActive |-> TRUE, stream |-> i]
                            /\ startLog' = settled
                       ELSE /\ UNCHANGED cameraMode
                            /\ startLog' = Fallback(settled, i)
           ELSE /\ startLog' = settled
                /\ UNCHANGED <<srcObject, cameraMode>>
  /\ UNCHANGED <<uploadedImage, opacity, showPrivacyModal, showClearConfirm,
                 storageV1>>
  /\ UNCHANGED laterVars

\* a getUserMedia promise of startCamera rejects (App.tsx 68-81)
GetUserMediaRejects(i) ==
  /\ startLog[i].result = "pending"
  /\ startLog' = Fallback([startLog EXCEPT ![i].result = "rejected"], i)
  /\ UNCHANGED <<uploadedImage, opacity, cameraMode, showPrivacyModal,
                 showClearConfirm, srcObject, tracksRunning, storageV1>>
  /\ UNCHANGED laterVars

\* exitCamera (App.tsx 83-88); the re-render unmounts the video element
exitCamera ==
  /\ tracksRunning' = IF cameraMode.stream # NoCamera
                  THEN tracksRunning \ {cameraMode.stream}
                  ELSE tracksRunning
  /\ cameraMode' = InactiveCamera
  /\ srcObject' = NoCamera
  /\ UNCHANGED <<uploadedImage, opacity, showPrivacyModal, showClearConfirm,
                 startLog, storageV1>>

\* clearImage (App.tsx 90-94)
clearImage ==
  /\ uploadedImage' = ""
  /\ storageV1' = [storageV1 EXCEPT !["tracecam-image"] = Absent]
  /\ showClearConfirm' = FALSE
  /\ UNCHANGED <<opacity, cameraMode, showPrivacyModal, srcObject, startLog,
                 tracksRunning>>

\* dismissPrivacyModal (App.tsx 96-99)
dismissPrivacyModal ==
  /\ showPrivacyModal' = FALSE
  /\ storageV1' = [storageV1 EXCEPT !["tracecam-privacy-seen"] = StrTrue]
  /\ UNCHANGED <<uploadedImage, opacity, cameraMode, showClearConfirm, srcObject,
                 startLog, tracksRunning>>

\* the inline handlers setShowClearConfirm(true), setShowClearConfirm(false)
\* and setShowPrivacyModal(true) (App.tsx 133, 201, 236, 301)
setShowClearConfirm(value) ==
  /\ showClearConfirm' = value
  /\ UNCHANGED <<uploadedImage, opacity, cameraMode, showPrivacyModal, srcObject,
                 startLog, tracksRunning, storageV1>>

setShowPrivacyModal(value) ==
  /\ showPrivacyModal' = value
  /\ UNCHANGED <<uploadedImage, opacity, cameraMode, showClearConfirm, srcObject,
                 startLog, tracksRunning, storageV1>>

Buttons ==
  {"Got it!", "Cancel", "Clear Image (confirm)", "Exit Camera", "Clear Image",
   "Remove Image", "Start Camera", "Privacy Info"}

\* the button is rendered, enabled and not covered by a modal
\* (App.tsx 102-149, 151-216, 219-311)
Clickable(button) ==
  CASE button = "Got it!" -> showPrivacyModal
    [] button \in {"Cancel", "Clear Image (confirm)"} -> showClearConfirm
    [] button = "Exit Camera" -> CameraViewShown /\ ~ModalOpen
    [] button = "Clear Image" ->
         CameraViewShown /\ ~ModalOpen /\ uploadedImage # ""
    [] button = "Remove Image" ->
         ~CameraViewShown /\ ~ModalOpen /\ uploadedImage # ""
    [] button = "Start Camera" ->
         ~CameraViewShown /\ ~ModalOpen /\ uploadedImage # ""
    [] button = "Privacy Info" -> ~CameraViewShown /\ ~ModalOpen

\* the onClick of each button (App.tsx 112, 133, 139, 194, 201, 236, 279, 301)
onClick(button) ==
  CASE button = "Got it!" -> dismissPrivacyModal
    [] button = "Cancel" -> setShowClearConfirm(FALSE)
    [] button = "Clear Image (confirm)" -> clearImage
    [] button = "Exit Camera" -> exitCamera
    [] button \in {"Clear Image", "Remove Image"} -> setShowClearConfirm(TRUE)
    [] button = "Start Camera" -> startCamera
    [] button = "Privacy Info" -> setShowPrivacyModal(TRUE)

\* the user clicks a button of the page
Click ==
  \E button \in Buttons :
    /\ Clickable(button)
    /\ onClick(button)
    /\ UNCHANGED laterVars

\* the page of the first iteration is refreshed: the document's streams end
\* and its promises are dropped
ReloadV1 ==
  /\ LET m == MountedV1(storageV1)
     IN  /\ uploadedImage' = m.uploadedImage
         /\ opacity' = m.opacity
         /\ showPrivacyModal' = m.showPrivacyModal
  /\ showClearConfirm' = FALSE
  /\ cameraMode' = InactiveCamera
  /\ srcObject' = NoCamera
  /\ startLog' = <<>>
  /\ tracksRunning' = {}
  /\ UNCHANGED storageV1
  /\ UNCHANGED laterVars

----------------------------------------------------------------------------
(* Specifications *)

Camera ==
  \/ handlePrivacyAccept
  \/ GumResolve
  \/ GumReject
  \/ PlaybackFails
  \/ Reload
  \/ ClearSiteData

Controls ==
  \/ \E fileType \in {"image", "text"} : handleImageUpload(fileType)
  \/ \E newOpacity \in Opacities : handleOpacityChange(newOpacity)
  \/ handleClearImage
  \/ handleMoveToggle
  \/ handlePictureMoveToggle
  \/ handleCameraMoveToggle
  \/ handleHide
  \/ handleShow
  \/ handleOpacityToggle

\* every kind of contact, on every point
AnyContacts ==
  [points |-> Points, maxTouches |-> MaxTouches,
   kinds |-> {"pointer", "touch", "both"}, shift |-> MaxShift]

Next == Camera \/ Controls \/ Gestures(AnyContacts)

\* every event of the page, in any order
Spec == Init /\ [][Next]_vars

(***************************************************************************)
(* Scenarios.  Each next-state relation below is a sub-relation of Next,   *)
(* so each behaviour of a scenario is a behaviour of Spec.                 *)
(***************************************************************************)

\* page lifecycle, camera acquisition and the controls; no contact gestures
Lifecycle == Camera \/ Controls

SpecLifecycle == Init /\ [][Lifecycle]_vars

\* no contact is down
Quiet == touches = <<>>

\* The gesture scenarios: the permission prompt is granted at the first
\* request, and the user presses a control or refreshes the page only while
\* no contact is down, so the active target is the same for a whole contact.
Session ==
  \/ handlePrivacyAccept
  \/ GumResolve
  \/ Quiet /\ Reload
  \/ Quiet /\ handleImageUpload("image")
  \/ Quiet /\ handleClearImage
  \/ Quiet /\ handleMoveToggle
  \/ Quiet /\ handlePictureMoveToggle
  \/ Quiet /\ handleCameraMoveToggle

HideShow ==
  \/ Quiet /\ handleHide
  \/ Quiet /\ handleShow

\* one contact at a time, of every kind, dragged within |x| <= 2 * MaxShift
DragContacts ==
  [points |-> Points, maxTouches |-> 1,
   kinds |-> {"pointer", "touch", "both"}, shift |-> 2 * MaxShift]

SpecDrag == Init /\ [][Session \/ HideShow \/ Gestures(DragContacts)]_vars

\* as SpecDrag, and the Clear control is also pressed while a contact is down
SpecClear ==
  Init /\ [][Session \/ HideShow \/ handleClearImage \/ Gestures(DragContacts)]_vars

\* up to MaxTouches fingers on the video element; the layers are not dragged
PinchContacts ==
  [points |-> Points, maxTouches |-> MaxTouches, kinds |-> {"touch"}, shift |-> 0]

SpecPinch == Init /\ [][Session \/ HideShow \/ TouchGestures(PinchContacts)]_vars

\* up to MaxTouches fingers on the video or the overlay element, on two points
PinchDragContacts ==
  [points |-> { <<0, 0>>, <<3, 4>> }, maxTouches |-> MaxTouches,
   kinds |-> {"touch", "both"}, shift |-> MaxShift]

SpecPinchDrag ==
  Init /\ [][Session \/ PointerGestures(PinchDragContacts)
                     \/ TouchGestures(PinchDragContacts)]_vars

\* the camera and every control, on a page whose component may be unmounted
SpecTeardown == Init /\ [][Lifecycle \/ Unmount]_vars

\* one contact at a time of every kind
ToggleContacts ==
  [points |-> {<<0, 0>>, <<3, 4>>}, maxTouches |-> 1,
   kinds |-> {"pointer", "touch", "both"}, shift |-> MaxShift]

\* the move menu and its two targets are operated, and the page is hidden
\* and shown, while a contact is down as well as between contacts
SpecToggle ==
  Init /\ [][ \/ handlePrivacyAccept
              \/ GumResolve
              \/ Quiet /\ handleImageUpload("image")
              \/ handleMoveToggle
              \/ handlePictureMoveToggle
              \/ handleCameraMoveToggle
              \/ HideShow
              \/ Gestures(ToggleContacts) ]_vars

\* one finger at a time on the video element
LoadContacts ==
  [points |-> {<<0, 0>>, <<3, 4>>}, maxTouches |-> 1,
   kinds |-> {"touch"}, shift |-> MaxShift]

\* pages that are loaded from a storage holding what the component saved and
\* what it did not
SpecLoad ==
  Init /\ [][Session \/ ForeignWrite \/ TouchGestures(LoadContacts)]_vars

\* one contact at a time, as mouse on the overlay or as finger on the video;
\* the layers are not dragged away
QuotaContacts ==
  [points |-> {<<0, 0>>, <<3, 4>>}, maxTouches |-> 1,
   kinds |-> {"pointer", "touch"}, shift |-> 0]

\* consent, a camera that is granted, every control and single-contact
\* gestures that stay in place, with a storage whose quota runs out and is
\* freed at any time
SpecQuota ==
  Init /\ [][ \/ handlePrivacyAccept
              \/ GumResolve
              \/ Reload
              \/ Controls
              \/ StorageFills
              \/ StorageFrees
              \/ PointerDown(QuotaContacts)
              \/ PointerMove(QuotaContacts)
              \/ PointerHover(QuotaContacts)
              \/ PointerUp(QuotaContacts)
              \/ TouchGestures(QuotaContacts) ]_vars

\* up to MaxTouches fingers on the overlay element, whose pointer and touch
\* events both reach the handlers
PinchToggleContacts ==
  [points |-> { <<0, 0>>, <<3, 4>> }, maxTouches |-> MaxTouches,
   kinds |-> {"both"}, shift |-> MaxShift]

\* the move menu and the picture target are operated while fingers are down
\* as well as between contacts
SpecPinchToggle ==
  Init /\ [][ \/ handlePrivacyAccept
              \/ GumResolve
              \/ Quiet /\ handleImageUpload("image")
              \/ handleMoveToggle
              \/ handlePictureMoveToggle
              \/ PointerGestures(PinchToggleContacts) ]_vars

\* one finger more than a pinch needs, on the overlay element
ThreeContacts ==
  [points |-> { <<0, 0>>, <<3, 4>> }, maxTouches |-> MaxTouches + 1,
   kinds |-> {"both"}, shift |-> MaxShift]

SpecThree == Init /\ [][Session \/ PointerGestures(ThreeContacts)]_vars

\* the first iteration of the component: every button, both inputs, the
\* settling of its camera requests and the refresh of its page
FirstIteration ==
  \/ Click
  \/ \E fileType \in {"image/png", "text/plain"} : handleImageUploadV1(fileType)
  \/ \E newOpacity \in Opacities : handleOpacityChangeV1(newOpacity)
  \/ \E i \in 1..Len(startLog) : GetUserMediaResolves(i)
  \/ \E i \in 1..Len(startLog) : GetUserMediaRejects(i)
  \/ ReloadV1

SpecFirst == Init /\ [][FirstIteration]_vars

----------------------------------------------------------------------------
(* Claims *)

InRange(v) == IsFinite(v) /\ Leq(Num(1, 2), v) /\ Leq(v, Num(3, 1))

\* C1: in every reachable state the scale of the overlay-image Transform and
\* of the camera-viewport Transform is a number within [0.5, 3.0].
C1_ScaleWithinRange ==
  InRange(imagePosition.scale) /\ InRange(cameraTransform.scale)

\* one contact is down before and after the step
SingleContactStep == Len(touches) = 1 /\ Len(touches') = 1

\* how far that contact moved in the step
ContactDx == touches'[1][1] - touches[1][1]
ContactDy == touches'[1][2] - touches[1][2]

\* the active Transform follows the contact and the other one stays
FollowsContact ==
  /\ isPictureMoveActive =>
       /\ imagePosition' = Translate(imagePosition, ContactDx, ContactDy)
       /\ cameraTransform' = cameraTransform
  /\ isCameraMoveActive =>
       /\ cameraTransform' = Translate(cameraTransform, ContactDx, ContactDy)
       /\ imagePosition' = imagePosition

\* C2: with a target active for a whole contact, the contact's start changes
\* no Transform and every later step changes the active Transform's (x, y) by
\* exactly the distance the contact moved in that step, whichever handlers
\* the step runs (pointer, touch, or a pointer event and then the touch event
\* of the same move); so after moves p1..pn the position is
\* (x0, y0) + (pn - p0).
C2_DragAccumulates ==
  [][ /\ (touches = <<>> /\ Len(touches') = 1) => UNCHANGED transformVars
      /\ (SingleContactStep /\ ~NoTarget) => FollowsContact ]_vars

C2_Witness ==
  /\ delivery = "both" /\ pending = "none"
  /\ touches = << <<6, 8>> >>
  /\ isPictureMoveActive
  /\ imagePosition.x = 6 /\ imagePosition.y = 8

\* C3: isPictureMoveActive and isCameraMoveActive are never both true.
C3_MutualExclusion == ~(isPictureMoveActive /\ isCameraMoveActive)

C3_Witness ==
  isCameraMoveActive /\ ~isPictureMoveActive /\ showMoveMenu /\ ~hideMode

\* a touch end leaves one of the two points of a pinch in progress
PinchToDrag ==
  /\ ~NoTarget /\ isPinching
  /\ \/ delivery = "touch" /\ Len(touches) = 2 /\ Len(touches') = 1
     \/ pending = "touchend" /\ Len(touches) = 1

\* C4: the touch end that leaves one point of a pinch changes no Transform,
\* enables drag tracking and records the remaining point's position as the
\* drag origin; and whenever drag tracking is on with the contact's position
\* as the origin, a step of that single contact changes the active
\* Transform's (x, y) by exactly the distance the contact moved.
C4_PinchToDragContinuity ==
  /\ [][ PinchToDrag =>
           /\ UNCHANGED transformVars
           /\ isDragging' /\ ~isPinching'
           /\ dragStartPos' = touches'[1] ]_vars
  /\ [][ (SingleContactStep /\ ~NoTarget /\ isDragging /\ dragStartPos = touches[1])
           => FollowsContact ]_vars

C4_Witness ==
  /\ Len(touches) = 1 /\ touches[1] = <<3, 4>>
  /\ isDragging /\ ~isPinching /\ lastPinchDistance = 3 + 2
  /\ isCameraMoveActive
  /\ cameraTransform.x = 3 /\ cameraTransform.y = 4
  /\ cameraTransform.scale = Num(1, 2)

\* the last contact of an interaction is lifted and its handlers have run
InteractionEnd ==
  \/ /\ delivery \in {"pointer", "touch"}
     /\ touches # <<>> /\ touches' = <<>>
     /\ UNCHANGED <<overlayImage, error, stream>>
  \/ pending = "touchend" /\ touches = <<>>

\* C5: when an interaction ends with a target active, the value stored under
\* that target's key is present and a mount-time restore of it yields the
\* target's current Transform.
C5_PersistenceRoundTrip ==
  [][ InteractionEnd =>
        /\ isPictureMoveActive =>
             /\ localStorage'.tracecam_image_transform # Absent
             /\ RestoreTransform(localStorage'.tracecam_image_transform)
                  = imagePosition'
        /\ isCameraMoveActive =>
             /\ localStorage'.tracecam_camera_transform # Absent
             /\ RestoreTransform(localStorage'.tracecam_camera_transform)
                  = cameraTransform' ]_vars

\* the step of the clear action: the image goes away and the page stays
ClearStep == overlayImage # "" /\ overlayImage' = "" /\ stream' # NoStream

Identity == [x |-> 0, y |-> 0, scale |-> Num(1, 1)]

\* C6: the clear action leaves the overlay image absent, both Transforms
\* equal to {0, 0, 1} and neither Transform's key in storage.
C6_ClearResets ==
  [][ ClearStep =>
        /\ imagePosition' = Identity
        /\ cameraTransform' = Identity
        /\ localStorage'.tracecam_image_transform = Absent
        /\ localStorage'.tracecam_camera_transform = Absent ]_vars

\* the image was cleared in the middle of a drag of the camera viewport:
\* drag tracking is still on, and the contact reaches no handler any more
C6_Witness ==
  /\ overlayImage = "" /\ stream # NoStream
  /\ isDragging /\ touches = <<>> /\ isCameraMoveActive
  /\ dragStartPos = <<6, 8>>
  /\ imagePosition = Identity /\ cameraTransform = Identity
  /\ localStorage.tracecam_image_transform = Absent
  /\ localStorage.tracecam_camera_transform = Absent

FallbackOrder == <<"exact", "preferred", "any">>

\* C7: the requests are issued in the order strict, soft preference, any;
\* each request but the last has rejected; and the held stream is the one of
\* the request that resolved, after which no request is issued.
C7_FallbackOrder ==
  /\ Len(gumLog) <= 3
  /\ \A i \in 1..Len(gumLog) :
       /\ gumLog[i].constraints = FallbackOrder[i]
       /\ i < Len(gumLog) => gumLog[i].result = "rejected"
  /\ (gumLog # <<>> /\ LastRequest.result = "resolved") =>
       stream = LastRequest.constraints /\ streamRef = LastRequest.constraints
  /\ stream # NoStream => (gumLog # <<>> /\ LastRequest.result = "resolved")

C7_Witness ==
  /\ Len(gumLog) = 2
  /\ gumLog[1].result = "rejected" /\ gumLog[2].result = "resolved"
  /\ stream = "preferred"

AllRejected ==
  Len(gumLog) = 3 /\ \A i \in 1..3 : gumLog[i].result = "rejected"

\* C8: the acquisition error is set exactly when all three requests have
\* rejected; when one resolved, no acquisition error is set and the stream
\* is held.
C8_FailsOnlyIfAllReject ==
  /\ error = ErrAccessFailed <=> AllRejected
  /\ (\E i \in 1..Len(gumLog) : gumLog[i].result = "resolved") =>
       error # ErrAccessFailed /\ streamRef # NoStream

C8_Witness == error = ErrAccessFailed /\ AllRejected

\* C9: a getUserMedia request has been issued on this page only if the
\* privacy notice is not pending.
C9_ConsentGatesCamera == gumLog # <<>> => ~showPrivacy

\* the request issued at the mount of a later load, from the stored flag
C9_Witness ==
  /\ gumLog = <<Pending("exact")>> /\ ~showPrivacy
  /\ localStorage.tracecam_privacy_accepted = StrTrue
  /\ localStorage.tracecam_camera_transform # Absent

\* C10: the notice shows on a first load, which has no stored flag (the
\* first conjunct speaks of the initial state); it goes away only with the flag
\* stored as 'true' (by accepting, or on a load that finds the flag); a load
\* shows the notice exactly when the flag is not stored; and once gone the
\* notice comes back only with the flag absent from storage.
C10_ConsentSetOnce ==
  /\ (localStorage.tracecam_privacy_accepted = Absent /\ showPrivacy = TRUE)
  /\ [][ (showPrivacy /\ ~showPrivacy') =>
           localStorage'.tracecam_privacy_accepted = StrTrue ]_vars
  /\ [][ Reload =>
           (showPrivacy' <=> localStorage.tracecam_privacy_accepted # StrTrue) ]_vars
  /\ [][ (~showPrivacy /\ showPrivacy') =>
           localStorage'.tracecam_privacy_accepted = Absent ]_vars

\* a later load with the flag stored: no notice, and nothing acquired yet
C10_Witness ==
  /\ ~showPrivacy /\ stream = NoStream
  /\ localStorage.tracecam_privacy_accepted = StrTrue
  /\ localStorage.tracecam_overlay_opacity # Absent

\* the first write of this page that fails, and the handler it fails in
FirstThrow == uncaught = NoException /\ uncaught' # NoException

\* C11: no exception of a failed storage write leaves a handler, and the
\* handler with the failed write leaves the in-memory state a successful run
\* leaves: the consent handler has dismissed the notice, an interaction end
\* has cleared drag tracking, and a control that saves a Transform (Hide, or
\* Move closing its menu) has closed the move menu.
C11_WriteFailuresSwallowed ==
  /\ [](uncaught = NoException)
  /\ [][ FirstThrow =>
           /\ uncaught' = "tracecam_privacy_accepted" => ~showPrivacy'
           /\ (uncaught' \in {"tracecam_image_transform", "tracecam_camera_transform"}
                 /\ touches' # touches) => ~isDragging'
           /\ (uncaught' \in {"tracecam_image_transform", "tracecam_camera_transform"}
                 /\ touches' = touches) => ~showMoveMenu' ]_vars

\* the stored string is missing or does not parse
Unparseable(s) == s = Absent \/ s \in {Str("{x:"), EmptyString}

\* what a load makes of the string stored under one Transform's key
LoadedFrom(s, t) ==
  /\ Unparseable(s) => t = DefaultTransform
  /\ t # DefaultTransform =>
       s # Absent /\ s.k = "json" /\ t = [x |-> s.x, y |-> s.y, scale |-> s.scale]
  /\ (s # Absent /\ s.k = "json") =>
       t = [x |-> s.x, y |-> s.y, scale |-> s.scale]

\* C12: at a load, a Transform whose key is missing or holds a string that
\* does not parse is the default {0, 0, 1}; a Transform differs from the
\* default only by being the value saved under its key; each Transform is
\* loaded from its own key whatever the other key holds; and no error is
\* shown or thrown.
C12_LoadTreatsGarbageAsAbsence ==
  [][ Reload =>
        /\ LoadedFrom(localStorage.tracecam_image_transform, imagePosition')
        /\ LoadedFrom(localStorage.tracecam_camera_transform, cameraTransform')
        /\ apiPresent => error' = NoError
        /\ uncaught' = NoException ]_vars

\* a page loaded from a camera Transform that was saved and an image
\* Transform key that holds text that is not JSON
C12_Witness ==
  /\ localStorage.tracecam_image_transform = Str("{x:")
  /\ localStorage.tracecam_camera_transform # Absent
  /\ localStorage.tracecam_camera_transform.k = "json"
  /\ imagePosition = DefaultTransform
  /\ cameraTransform = [x |-> 3, y |-> 4, scale |-> Num(1, 1)]
  /\ stream = NoStream /\ gumLog = <<Pending("exact")>>

\* a pointer or touch event is delivered: the contacts change, or a touch
\* event waits behind its pointer event, and no control acts
GestureEvent ==
  /\ contactVars' # contactVars
  /\ UNCHANGED <<targetVars, menuVars, overlayVars, cameraVars, envVars>>

\* C13: with neither target active, a pointer or touch event changes neither
\* Transform, none of isDragging, isPinching, the drag origin and the last
\* pinch distance, and nothing in storage.
C13_IgnoredWithoutTarget ==
  [][ (NoTarget /\ GestureEvent) =>
        UNCHANGED <<transformVars, gestureRefs, storageVars>> ]_vars

\* the target was switched off under a finger that had started a drag, and
\* the finger's move from (0,0) to (3,4) was ignored
C13_Witness ==
  /\ NoTarget /\ delivery = "touch"
  /\ touches = << <<3, 4>> >>
  /\ isDragging /\ dragStartPos = <<0, 0>>
  /\ imagePosition = DefaultTransform /\ cameraTransform = DefaultTransform

\* a contact is put down or moved, or the touch event of such a change runs
StartOrMoveEvent ==
  /\ GestureEvent
  /\ Len(touches') >= Len(touches)
  /\ pending # "touchend"

ByGesture == UNCHANGED <<targetVars, menuVars, overlayVars, cameraVars, envVars>>

\* C15: after the load, the overlay-image Transform changes only in a gesture
\* event with the picture target active or in the clear action, and the
\* camera-viewport Transform only in a gesture event with the camera target
\* active or in the clear action.
C15_SoleWriters ==
  /\ [][ imagePosition' # imagePosition =>
           \/ ByGesture /\ isPictureMoveActive
           \/ ClearStep
           \/ Reload ]_vars
  /\ [][ cameraTransform' # cameraTransform =>
           \/ ByGesture /\ isCameraMoveActive
           \/ ClearStep
           \/ Reload ]_vars

\* the component is unmounted in this step
Unmounting == mounted /\ ~mounted'

\* C16: after the cleanup of the camera effect every track of the stream
\* that streamRef held is stopped and streamRef is empty; and in every state,
\* running the cleanup leaves the ref empty, running it with no stream held
\* changes nothing, and running it a second time changes nothing more.
C16_ReleaseStopsAndIsIdempotent ==
  /\ [][ Unmounting => streamRef' = NoStream /\ streamRef \notin live' ]_vars
  /\ [] LET once == cleanup(streamRef, live)
            twice == cleanup(once.streamRef, once.live)
        IN  /\ once.streamRef = NoStream
            /\ streamRef \notin once.live
            /\ streamRef = NoStream => once.live = live
            /\ twice = once

\* the component was unmounted while it held the stream of the strict
\* request: the ref is empty and no track runs
C16_Witness ==
  /\ ~mounted /\ streamRef = NoStream /\ live = {}
  /\ stream = "exact" /\ gumLog = <<[constraints |-> "exact", result |-> "resolved"]>>

\* C17: at most one getUserMedia request of the page is pending.
C17_OneRequestPending ==
  Cardinality({i \in 1..Len(gumLog) : gumLog[i].result = "pending"}) <= 1

\* the any-camera request is pending after the two before it rejected, in a
\* page whose effect ran again when the notice was accepted
C17_Witness ==
  /\ Len(gumLog) = 3 /\ gumLog[3] = Pending("any")
  /\ mounted /\ ~showPrivacy /\ ~hideMode /\ stream = NoStream

\* a stream arrives for a component that is no longer mounted
LateArrival ==
  /\ ~mounted /\ RequestPending
  /\ gumLog'[Len(gumLog)].result = "resolved"

\* C18: a stream that arrives after the cleanup ran with the request still
\* pending is not stored in streamRef, not put into the stream state and not
\* bound to the video element.
C18_LateStreamNotAttached ==
  [][ LateArrival =>
        streamRef' = NoStream /\ stream' = NoStream /\ videoSrc' = NoStream ]_vars

\* C19: on a platform without the capture API the view shown is the
\* 'Camera Not Supported' message, it offers no retry, and no getUserMedia
\* request is issued.
C19_UnsupportedPlatform ==
  (~apiPresent /\ mounted) =>
    /\ View = "Camera Not Supported"
    /\ ~RetryOffered
    /\ gumLog = <<>>

\* the slider is moved: the opacity changes on a page that stays
SliderChange ==
  overlayOpacity' # overlayOpacity /\ stream # NoStream /\ stream' = stream

StoredOpacity(st) == parseFloat(st.tracecam_overlay_opacity)

\* C20: the opacity is 0.5 on a page loaded with nothing stored (the first
\* conjunct speaks of the initial state); after every slider change the
\* stored opacity is the in-memory one; a stored opacity is always the
\* in-memory one, and a load takes the stored one, so that after a reload the
\* opacity is the last value set; and the opacity is always within
\* [0.1, 1.0].
C20_OpacityPersistedInRange ==
  /\ (localStorage.tracecam_overlay_opacity = Absent /\ overlayOpacity = 50)
  /\ [][ (Reload /\ localStorage.tracecam_overlay_opacity = Absent) =>
           overlayOpacity' = 50 ]_vars
  /\ [][ SliderChange =>
           /\ localStorage'.tracecam_overlay_opacity # Absent
           /\ StoredOpacity(localStorage') = overlayOpacity' ]_vars
  /\ [](localStorage.tracecam_overlay_opacity # Absent =>
          StoredOpacity(localStorage) = overlayOpacity)
  /\ [][ (Reload /\ localStorage.tracecam_overlay_opacity # Absent) =>
           overlayOpacity' = StoredOpacity(localStorage) ]_vars
  /\ [](MinOpacity <= overlayOpacity /\ overlayOpacity <= MaxOpacity)

\* a page reloaded after the slider was moved to 0.55
C20_Witness ==
  /\ overlayOpacity = 55
  /\ localStorage.tracecam_overlay_opacity = Str(<<"0", ".", "5", "5">>)
  /\ stream = NoStream /\ ~showOpacitySlider /\ gumLog = <<Pending("exact")>>

\* the keys the component writes or removes
WrittenKeys ==
  {"tracecam_privacy_accepted", "tracecam_overlay_opacity",
   "tracecam_image_transform", "tracecam_camera_transform"}

C22_ImageSurvivesReload ==
  [][ (Reload /\ overlayImage # "") =>
        /\ overlayImage' = overlayImage
        /\ (localStorage.tracecam_overlay_opacity # Absent =>
              overlayOpacity' = StoredOpacity(localStorage)) ]_vars

\* the Move button is pressed while its menu is open
MoveClose ==
  showMoveMenu /\ ~showMoveMenu' /\ ~hideMode' /\ ~showOpacitySlider'

\* C23: tapping Move again locks the position: when the Move button closes
\* the move menu no gesture target is active afterwards, and while the menu
\* is closed a pointer or touch event changes neither Transform.
C23_MoveCloseLocks ==
  /\ [][ MoveClose => (~isPictureMoveActive' /\ ~isCameraMoveActive') ]_vars
  /\ [][ (~showMoveMenu /\ ByGesture) => UNCHANGED transformVars ]_vars

\* a getUserMedia request of the first iteration's startCamera succeeds
StartGranted ==
  \E i \in 1..Len(startLog) :
    startLog[i].result = "pending" /\ startLog'[i].result = "resolved"

\* the streams getUserMedia has handed to startCamera
Obtained == {i \in 1..Len(startLog) : startLog[i].result = "resolved"}

\* C24: in the first iteration, when a getUserMedia request of Start Camera
\* succeeds the app is in camera mode with the acquired stream and shows the
\* camera feed; every stream obtained is the one held in cameraMode.stream
\* or has no running track; and after Exit Camera no track runs and the main
\* view is shown.
C24_StartCameraFlow ==
  /\ [][ StartGranted =>
          /\ cameraMode'.isActive
          /\ cameraMode'.stream \in Obtained'
          /\ srcObject' = cameraMode'.stream ]_vars
  /\ [](\A i \in Obtained : i = cameraMode.stream \/ i \notin tracksRunning)
  /\ [][ (cameraMode.isActive /\ ~cameraMode'.isActive) => tracksRunning' = {} ]_vars

\* a pointermove or touchmove event: the contacts stay down, and the step is
\* neither a start or end event nor the touch event queued behind one
MoveEvent ==
  /\ ByGesture
  /\ Len(touches') = Len(touches)
  /\ \/ pending = "touchmove"
     \/ pending' = "touchmove"
     \/ pending = "none" /\ pending' = "none"

SamePlace(a, b) == a.x = b.x /\ a.y = b.y

\* C25: pinch and drag do not mix: with a target active, a move event with
\* two contacts down changes the x and y of neither Transform, and a move
\* event with one contact down changes the scale of neither Transform, also
\* when the pointer event and the touch event of each contact change are both
\* delivered.
C25_PinchAndDragDoNotMix ==
  /\ [][ (MoveEvent /\ ~NoTarget /\ Len(touches) = 2) =>
          /\ SamePlace(imagePosition', imagePosition)
          /\ SamePlace(cameraTransform', cameraTransform) ]_vars
  /\ [][ (MoveEvent /\ ~NoTarget /\ Len(touches) = 1) =>
          /\ imagePosition'.scale = imagePosition.scale
          /\ cameraTransform'.scale = cameraTransform.scale ]_vars

\* Hide is pressed and the page enters hide mode
HideStep == ~hideMode /\ hideMode'

\* C26: Hide locks the transforms: the step into hide mode leaves no gesture
\* target active and both menus closed; in every reachable state with hide
\* mode on no target is active and neither the move menu nor the opacity
\* slider is open; and no pointer or touch event changes a Transform while
\* hide mode is on.
C26_HideLocks ==
  /\ [][ HideStep =>
          /\ ~isPictureMoveActive' /\ ~isCameraMoveActive'
          /\ ~showMoveMenu' /\ ~showOpacitySlider' ]_vars
  /\ [](hideMode => NoTarget /\ ~showMoveMenu /\ ~showOpacitySlider)
  /\ [][ (hideMode /\ ByGesture) => UNCHANGED transformVars ]_vars

\* the UI is hidden after the camera layer was moved, and a contact has
\* landed on the hidden page
C26_Witness ==
  /\ hideMode
  /\ cameraTransform.x # 0
  /\ touches # <<>> /\ touches[1] # <<0, 0>>
  /\ isDragging = FALSE

\* C27: drag tracking and pinch tracking are never enabled together: in every
\* reachable state, after any interleaving of pointer and touch events with
\* one, two, three or more contacts, isDragging and isPinching are not both
\* true.
C27_DragAndPinchExclusive == ~(isDragging /\ isPinching)

\* the eye button is pressed: the page leaves hide mode and stays loaded
ShowStep == hideMode /\ ~hideMode' /\ UNCHANGED cameraVars

\* C28: Hide/Show compensation round-trips and never leaks into storage: Hide
\* adds 56 to the camera-viewport Transform's y, nothing changes that
\* Transform while hide mode stays on, and Show subtracts 56, so that Hide
\* followed by Show leaves it as it was; the stored camera Transform changes
\* only outside hide mode, and then to the Transform as it is before the
\* step, which has no compensation; and a reload starts with hide mode off
\* and the stored Transform.
C28_HideShowRoundTrip ==
  /\ [][ HideStep =>
          cameraTransform' = [cameraTransform EXCEPT !.y = @ + HideOffset] ]_vars
  /\ [][ (hideMode /\ hideMode') => UNCHANGED cameraTransform ]_vars
  /\ [][ ShowStep =>
          cameraTransform' = [cameraTransform EXCEPT !.y = @ - HideOffset] ]_vars
  /\ [][ localStorage'.tracecam_camera_transform # localStorage.tracecam_camera_transform
          => /\ ~hideMode
             /\ localStorage'.tracecam_camera_transform
                  \in {Absent, JSONstringify(cameraTransform)} ]_vars
  /\ [][ (Reload /\ localStorage.tracecam_camera_transform # Absent) =>
          /\ ~hideMode'
          /\ JSONstringify(cameraTransform') = localStorage.tracecam_camera_transform ]_vars

\* the page is hidden with a moved camera layer whose stored Transform is the
\* one from before Hide
C28_Witness ==
  /\ hideMode
  /\ localStorage.tracecam_camera_transform # Absent
  /\ localStorage.tracecam_camera_transform.x # 0
  /\ cameraTransform.y = localStorage.tracecam_camera_transform.y + HideOffset

\* C29: no movement without a live contact: a pointer or touch event that
\* arrives while no contact is down, and that is not the start of one,
\* changes neither Transform; in particular a move event after a target was
\* deactivated during a contact, the contact lifted and a target activated
\* again changes nothing.
C29_NoMovementWithoutContact ==
  [][ (touches = <<>> /\ touches' = <<>> /\ ByGesture) =>
        UNCHANGED transformVars ]_vars

\* C30: no live camera behind the error view: whenever the error view is
\* displayed (error non-empty, from a failed acquisition, a missing API or a
\* playback that did not start), no acquired stream has running tracks.
C30_NoLiveCameraBehindError == (mounted /\ error # NoError) => live = {}

====
